---- MODULE Spec2Model ----
(***************************************************************************)
(* Model of the text-injection engine of pinion                            *)
(* (packages/pinion/src/ops/inject.ts): the inject operation, its anchor   *)
(* resolvers before / after / prepend / append, the line-number search     *)
(* getLineNumber and the newline detection.                                *)
(*                                                                         *)
(* A JavaScript string is a sequence of one-character tokens; CR and LF    *)
(* are the carriage return and the line feed.  A pattern is a record       *)
(* [isRegExp, text]: a string pattern holds its characters, a RegExp holds *)
(* its source.  The RegExp sources of the model are built of literal       *)
(* characters, escapes (a backslash and a character) and capture groups.   *)
(***************************************************************************)
EXTENDS Integers, Sequences, FiniteSets, TLC

\* ------------------------------------------------------------------ bounds
\* Most newline occurrences in an initial file.
MaxSeps == 3

\* ------------------------------------------------------------- characters
CR == "CR"
LF == "LF"
CRLF == <<CR, LF>>
BACKSLASH == "\\"

Min(a, b) == IF a < b THEN a ELSE b
Max(a, b) == IF a > b THEN a ELSE b

\* ------------------------------------------------- JavaScript string model
\* s.startsWith(p, i - 1), positions counted from 1
StartsWithAt(s, p, i) ==
    /\ i + Len(p) - 1 <= Len(s)
    /\ \A k \in 1..Len(p) : s[i + k - 1] = p[k]

\* s.indexOf(p, i - 1) + 1, and 0 when p does not occur from position i on
RECURSIVE IndexFrom(_, _, _)
IndexFrom(s, p, i) ==
    IF i + Len(p) - 1 > Len(s) THEN 0
    ELSE IF StartsWithAt(s, p, i) THEN i
    ELSE IndexFrom(s, p, i + 1)

\* s.indexOf(p) + 1, and 0 when p does not occur
IndexOf(s, p) == IndexFrom(s, p, 1)

\* str.substring(0, n)
Substring0(s, n) == SubSeq(s, 1, Min(Max(n, 0), Len(s)))

\* str.split(sep) for a non-empty separator string
RECURSIVE SplitString(_, _)
SplitString(s, sep) ==
    LET i == IndexOf(s, sep)
    IN  IF i = 0
        THEN <<s>>
        ELSE <<SubSeq(s, 1, i - 1)>> \o SplitString(SubSeq(s, i + Len(sep), Len(s)), sep)

\* The length of the match of EOLRegex = /\r?\n/ that starts at position i
\* of s, 0 when there is none.
EOLRegex(s, i) ==
    IF i < Len(s) /\ s[i] = CR /\ s[i + 1] = LF THEN 2
    ELSE IF i <= Len(s) /\ s[i] = LF THEN 1
    ELSE 0

\* The first position of s, from i on, at which EOLRegex matches, 0 when
\* there is none.
RECURSIVE EOLFrom(_, _)
EOLFrom(s, i) ==
    IF i > Len(s) THEN 0
    ELSE IF EOLRegex(s, i) > 0 THEN i
    ELSE EOLFrom(s, i + 1)

\* s.search(EOLRegex) + 1
EOLSearch(s) == EOLFrom(s, 1)

\* str.split(EOLRegex)
RECURSIVE SplitEOL(_)
SplitEOL(s) ==
    LET i == EOLSearch(s)
    IN  IF i = 0
        THEN <<s>>
        ELSE <<SubSeq(s, 1, i - 1)>> \o SplitEOL(SubSeq(s, i + EOLRegex(s, i), Len(s)))

\* str.match(/(?:\r?\n)/g) || []
RECURSIVE MatchNewlines(_)
MatchNewlines(s) ==
    LET i == EOLSearch(s)
    IN  IF i = 0
        THEN <<>>
        ELSE <<SubSeq(s, i, i + EOLRegex(s, i) - 1)>>
                 \o MatchNewlines(SubSeq(s, i + EOLRegex(s, i), Len(s)))

\* array.join(sep)
RECURSIVE Join(_, _)
Join(arr, sep) ==
    IF Len(arr) = 0 THEN <<>>
    ELSE IF Len(arr) = 1 THEN arr[1]
    ELSE arr[1] \o sep \o Join(Tail(arr), sep)

\* array.filter(p).length for p = (x => x === v)
CountEq(arr, v) == Cardinality({i \in 1..Len(arr) : arr[i] = v})

\* newline(str): the dominant newline of str, the platform's EOL when str
\* has none.
newline(str, eol) ==
    LET newlines == MatchNewlines(str)
        crlf == CountEq(newlines, CRLF)
        lf == Len(newlines) - crlf
    IN  IF Len(newlines) = 0 THEN eol
        ELSE IF crlf > lf THEN CRLF ELSE <<LF>>

\* ------------------------------------------------------ RegExp model
\* The characters escapeString puts a backslash before: [.*+?^${}()|[\]\\]
MetaChars == {".", "*", "+", "?", "^", "$", "{", "}", "(", ")", "|", "[", "]", BACKSLASH}

\* escapeString as it would be if it escaped nothing
escapeNothing(str) == str

\* escapeString(str) = str.replace(/[.*+?^${}()|[\]\\]/g, '\\$&')
RECURSIVE escapeString(_)
escapeString(str) ==
    IF str = <<>> THEN <<>>
    ELSE (IF str[1] \in MetaChars THEN <<BACKSLASH, str[1]>> ELSE <<str[1]>>)
             \o escapeString(Tail(str))

\* The last capture group of groups that is still open (to = -1).
LastOpen(groups) ==
    CHOOSE g \in 1..Len(groups) :
        /\ groups[g].to = -1
        /\ \A h \in 1..Len(groups) : groups[h].to = -1 => h <= g

\* A RegExp source compiled: the literal text it matches and its capture
\* groups, in the order of their opening parentheses, as ranges of that
\* text.  A backslash makes the next character literal.
RECURSIVE RegExpCompile(_, _, _)
RegExpCompile(src, lit, groups) ==
    IF src = <<>> THEN [lit |-> lit, groups |-> groups]
    ELSE IF src[1] = BACKSLASH /\ Len(src) >= 2
        THEN RegExpCompile(SubSeq(src, 3, Len(src)), Append(lit, src[2]), groups)
    ELSE IF src[1] = "("
        THEN RegExpCompile(Tail(src), lit,
                           Append(groups, [from |-> Len(lit) + 1, to |-> -1]))
    ELSE IF src[1] = ")"
        THEN RegExpCompile(Tail(src), lit,
                           [groups EXCEPT ![LastOpen(groups)].to = Len(lit)])
    ELSE RegExpCompile(Tail(src), Append(lit, src[1]), groups)

\* str.match(matcher) for a RegExp without the g flag: found is FALSE for
\* null; otherwise index is the match's offset and array holds the matched
\* text followed by the text of every capture group.
StringMatch(str, matcher) ==
    LET re == RegExpCompile(matcher, <<>>, <<>>)
        i == IndexOf(str, re.lit)
    IN  IF i = 0
        THEN [found |-> FALSE, index |-> 0, array |-> <<>>]
        ELSE [found |-> TRUE, index |-> i - 1,
              array |-> <<re.lit>> \o
                  [g \in 1..Len(re.groups) |->
                      SubSeq(re.lit, re.groups[g].from, re.groups[g].to)]]

\* Array.prototype.toString(): the elements joined with ","
ArrayToString(arr) == Join(arr, <<",">>)

\* `${line}` of a pattern: a string as it is, a RegExp as /source/
PatternToString(pattern) ==
    IF pattern.isRegExp THEN <<"/">> \o pattern.text \o <<"/">> ELSE pattern.text

\* pattern instanceof RegExp ? pattern : new RegExp(escapeString(pattern), 'm')
Matcher(pattern) ==
    IF pattern.isRegExp THEN pattern.text ELSE escapeString(pattern.text)

\* FindIndex as it would be if the last matching line won
FindLastIndex(lines, matcher) ==
    LET hits == {i \in 1..Len(lines) : StringMatch(lines[i], matcher).found}
    IN  IF hits = {} THEN -1
        ELSE (CHOOSE i \in hits : \A j \in hits : i >= j) - 1

\* lines.findIndex((l) => l.match(matcher)), an offset from 0, or -1
FindIndex(lines, matcher) ==
    LET hits == {i \in 1..Len(lines) : StringMatch(lines[i], matcher).found}
    IN  IF hits = {} THEN -1
        ELSE (CHOOSE i \in hits : \A j \in hits : i <= j) - 1

\* --------------------------------------------------------- getLineNumber
getLineNumber(pattern, lines, isBefore) ==
    LET matcher == Matcher(pattern)
        oneLineMatchIndex == FindIndex(lines, matcher)
    IN  IF oneLineMatchIndex < 0
        THEN LET fullText == Join(lines, <<LF>>)
                 fullMatch == StringMatch(fullText, matcher)
             IN  IF fullMatch.found /\ Len(fullMatch.array) > 0
                 THEN IF isBefore
                      THEN Len(SplitEOL(Substring0(fullText, fullMatch.index))) - 1
                      ELSE LET matchEndIndex ==
                                   fullMatch.index + Len(ArrayToString(fullMatch.array))
                           IN  Len(SplitEOL(Substring0(fullText, matchEndIndex)))
                 ELSE oneLineMatchIndex
        ELSE oneLineMatchIndex + (IF isBefore THEN 0 ELSE 1)

\* ------------------------------------------------------- anchor resolvers
\* A resolver's outcome: threw with a message, or an index.
Returned(i) == [threw |-> FALSE, index |-> i, message |-> <<>>]
Threw(msg) == [threw |-> TRUE, index |-> -1, message |-> msg]

before(pattern, lines, fileName) ==
    LET index == getLineNumber(pattern, lines, TRUE)
    IN  IF index < 0
        THEN Threw(<<"Could not find line '">> \o PatternToString(pattern)
                   \o <<"' in file ">> \o fileName \o <<" to inject content before">>)
        ELSE Returned(index)

after(pattern, lines, fileName) ==
    LET index == getLineNumber(pattern, lines, FALSE)
    IN  IF index < 0
        THEN Threw(<<"Could not find line '">> \o PatternToString(pattern)
                   \o <<"' in file ">> \o fileName \o <<" to inject content after">>)
        ELSE Returned(index)

prepend(lines) == Returned(0)

\* append as it would be if it returned the offset of the last line
appendAtLastLine(lines) == Returned(Len(lines) - 1)

append(lines) == Returned(Len(lines))

\* Splice as it would be with a delete count of 1: lines.splice(index, 1, content)
SpliceReplace(lines, index, content) ==
    LET start == IF index < 0 THEN Max(Len(lines) + index, 0) ELSE Min(index, Len(lines))
    IN  SubSeq(lines, 1, start) \o <<content>> \o SubSeq(lines, start + 2, Len(lines))

\* lines.splice(index, 0, content)
Splice(lines, index, content) ==
    LET start == IF index < 0 THEN Max(Len(lines) + index, 0) ELSE Min(index, Len(lines))
    IN  SubSeq(lines, 1, start) \o <<content>> \o SubSeq(lines, start + 1, Len(lines))

\* ------------------------------------------------------------- the inputs
\* ctx.cwd, and the two paths a target resolves to: a file that exists
\* and a path at which there is none.
cwd == <<"cwd">>
ExistingFile == cwd \o <<"readme.md">>
MissingFile == cwd \o <<"missing.md">>
Targets == {ExistingFile, MissingFile}

\* path.relative(from, to) for a path to below from
Relative(from, to) ==
    IF Len(to) >= Len(from) /\ SubSeq(to, 1, Len(from)) = from
    THEN SubSeq(to, Len(from) + 1, Len(to))
    ELSE to

\* The text of one line of an initial file.
LineTexts == {<<>>, <<"B">>, <<"C">>}

\* The file contents with exactly n newline occurrences.
RECURSIVE ContentsWith(_)
ContentsWith(n) ==
    IF n = 0 THEN LineTexts
    ELSE {t \o nl \o rest : t \in LineTexts, nl \in {CRLF, <<LF>>}, rest \in ContentsWith(n - 1)}

FileContents == UNION {ContentsWith(n) : n \in 0..MaxSeps}

\* The templates: the text to inject.
Templates == {<<"X">>}

StringPattern(text) == [isRegExp |-> FALSE, text |-> text]
RegExpPattern(source) == [isRegExp |-> TRUE, text |-> source]

\* The anchor patterns: "B", "B\nC", "(B)" and /(B)\nC/.
Patterns ==
    { StringPattern(<<"B">>),
      StringPattern(<<"B", LF, "C">>),
      StringPattern(<<"(", "B", ")">>),
      RegExpPattern(<<"(", "B", ")", LF, "C">>) }

\* The indexes a caller's own anchor resolver returns.
ResolverIndexes == -1..(MaxSeps + 1)

\* ---------------------------------------------------------------- state
VARIABLES
    fs,       \* the file system: the content of every file that exists
    EOL,      \* os.EOL, the platform's line ending
    trace,    \* ctx.pinion.trace
    notices,  \* what ctx.pinion.logger.notice was called with
    pc,       \* where the operation inject returned is: not yet invoked
              \* ("start"), or settled ("returned", "threw")
    last      \* the course of the last inject operation

vars == <<fs, EOL, trace, notices, pc, last>>

existsSync(fileName) == fileName \in DOMAIN fs

readFile(fileName) == fs[fileName]

\* addTrace(ctx, name, data)
addTrace(tr, name, fileName, content) ==
    Append(tr, [name |-> name, fileName |-> fileName, content |-> content])

\* The anchor resolver of an inject: before(pattern), after(pattern),
\* prepend(), append(), or a caller's resolver that returns index.
Location(kind, pattern, index, lines, fileName) ==
    CASE kind = "before"  -> before(pattern, lines, fileName)
      [] kind = "after"   -> after(pattern, lines, fileName)
      [] kind = "prepend" -> prepend(lines)
      [] kind = "append"  -> append(lines)
      [] OTHER            -> Returned(index)

NoPattern == StringPattern(<<>>)

\* What last records of an inject: its target and content, the anchor
\* resolver it invoked (kind and pattern), the calls it made to the
\* file system, the resolver, the logger and the trace in their order
\* (events), whether and with what message it threw, and the values of its
\* local variables.
Course(fileName, content, kind, pattern, events, threw, message, fileContent, NL, lines, index, newLines) ==
    [fileName |-> fileName, content |-> content, kind |-> kind, pattern |-> pattern,
     events |-> events, threw |-> threw, message |-> message,
     fileContent |-> fileContent, NL |-> NL, lines |-> lines, index |-> index,
     newLines |-> newLines]

NoCourse ==
    Course(<<>>, <<>>, "none", NoPattern, <<>>, FALSE, <<>>, <<>>, <<>>, <<>>, -1, <<>>)

Init ==
    /\ fs \in [{ExistingFile} -> FileContents]
    /\ EOL \in {CRLF, <<LF>>}
    /\ trace = <<>>
    /\ notices = <<>>
    /\ pc = "start"
    /\ last = NoCourse

\* MissingTargetMessage as it would be if it named the relative path
MissingTargetMessageRelative(fileName, relativeName) ==
    <<"Cannot inject to '">> \o relativeName \o <<"'. The file doesn't exist.">>

\* The message of the error inject throws when the target does not exist.
MissingTargetMessage(fileName, relativeName) ==
    <<"Cannot inject to '">> \o fileName \o <<"'. The file doesn't exist.">>

\* One invocation of the operation inject(template, location, target)
\* returns, with the template resolved to content and the target to
\* fileName: it runs from its first line to its return or its throw.
inject(fileName, content, kind, pattern, resolverIndex) ==
    LET relativeName == Relative(cwd, fileName)
    IN  /\ pc = "start"
        /\ UNCHANGED EOL
        /\ IF ~existsSync(fileName)
           THEN /\ last' = Course(fileName, content, "none", NoPattern, <<"existsSync">>,
                                  TRUE, MissingTargetMessage(fileName, relativeName),
                                  <<>>, <<>>, <<>>, -1, <<>>)
                /\ pc' = "threw"
                /\ UNCHANGED <<fs, trace, notices>>
           ELSE LET fileContent == readFile(fileName)
                    NL == newline(fileContent, EOL)
                    lines == SplitString(fileContent, NL)
                    loc == Location(kind, pattern, resolverIndex, lines, relativeName)
                IN  IF loc.threw
                    THEN /\ last' = Course(fileName, content, kind, pattern,
                                           <<"existsSync", "readFile", "location">>,
                                           TRUE, loc.message, fileContent, NL, lines,
                                           -1, <<>>)
                         /\ pc' = "threw"
                         /\ UNCHANGED <<fs, trace, notices>>
                    ELSE LET index == loc.index
                             newLines == IF index >= 0
                                         THEN Splice(lines, index, content)
                                         ELSE lines
                             newContent == Join(newLines, NL)
                         IN  /\ fs' = [fs EXCEPT ![fileName] = newContent]
                             /\ notices' = Append(notices, <<"Updated ">> \o relativeName)
                             /\ trace' = addTrace(trace, "inject", fileName, content)
                             /\ pc' = "returned"
                             /\ last' = Course(fileName, content, kind, pattern,
                                               <<"existsSync", "readFile", "location",
                                                 "writeFile", "notice", "addTrace">>,
                                               FALSE, <<>>, fileContent, NL, lines,
                                               index, newLines)

InjectBefore ==
    \E f \in Targets, c \in Templates, p \in Patterns : inject(f, c, "before", p, -1)

InjectAfter ==
    \E f \in Targets, c \in Templates, p \in Patterns : inject(f, c, "after", p, -1)

InjectPrepend ==
    \E f \in Targets, c \in Templates : inject(f, c, "prepend", NoPattern, -1)

InjectAppend ==
    \E f \in Targets, c \in Templates : inject(f, c, "append", NoPattern, -1)

InjectResolver ==
    \E f \in Targets, c \in Templates, i \in ResolverIndexes :
        inject(f, c, "resolver", NoPattern, i)

Next ==
    \/ InjectBefore
    \/ InjectAfter
    \/ InjectPrepend
    \/ InjectAppend
    \/ InjectResolver

Spec == Init /\ [][Next]_vars

\* ============================================================== properties
\* What the properties are stated with, apart from the state.

\* The inject invocation made the call named e.
Called(e) == \E i \in DOMAIN last.events : last.events[i] = e

\* The text a pattern stands for: a string pattern stands for itself, and
\* a RegExp of the model for the literal text of its source.
PatternLiteral(pattern) ==
    IF pattern.isRegExp THEN RegExpCompile(pattern.text, <<>>, <<>>).lit ELSE pattern.text

\* The positions of str at which the pattern matches.
MatchPositions(pattern, str) ==
    {i \in 1..(Len(str) + 1) : StartsWithAt(str, PatternLiteral(pattern), i)}

Smallest(S) == CHOOSE i \in S : \A j \in S : i <= j

\* The positions, in the line sequence, of the lines the pattern matches.
MatchingLines(pattern, lines) ==
    {i \in 1..Len(lines) : MatchPositions(pattern, lines[i]) # {}}

\* The lines joined with '\n'.
JoinedText(lines) == Join(lines, <<LF>>)

\* The position (from 0) in the line sequence of the line that holds offset
\* off (from 0) of the joined text; the '\n' after a line counts to it.
RECURSIVE LineOfOffset(_, _)
LineOfOffset(lines, off) ==
    IF Len(lines) <= 1 \/ off <= Len(lines[1]) THEN 0
    ELSE 1 + LineOfOffset(Tail(lines), off - Len(lines[1]) - 1)

\* The offset (from 0) at which the pattern's first match in the joined
\* text starts.
CrossLineStart(pattern, lines) == Smallest(MatchPositions(pattern, JoinedText(lines))) - 1

\* No single line matches, and the joined text does.
CrossLineCase(pattern, lines) ==
    /\ MatchingLines(pattern, lines) = {}
    /\ MatchPositions(pattern, JoinedText(lines)) # {}

\* The newline occurrences of str: every line feed is one, after a carriage
\* return a CRLF and otherwise an LF.
CRLFPositions(str) == {i \in 2..Len(str) : str[i] = LF /\ str[i - 1] = CR}
LFPositions(str) == {i \in 1..Len(str) : str[i] = LF /\ (i = 1 \/ str[i - 1] # CR)}

\* The anchor resolver was invoked and it was before / after.
ResolvedBy(kind) == Called("location") /\ last.kind = kind

\* --------------------------------------------------------------------- C1
\* C1: when an inject into an existing file returns, every newline
\* occurrence of the rewritten file is a CRLF if the file it read had more
\* CRLF than LF occurrences, and every one is an LF if it had more LF than
\* CRLF occurrences or as many, and at least one, of each.
C1_NewlineRoundTrip ==
    pc = "returned" =>
        LET old == last.fileContent
            new == fs[last.fileName]
            crlf == Cardinality(CRLFPositions(old))
            lf == Cardinality(LFPositions(old))
        IN  /\ crlf > lf => LFPositions(new) = {}
            /\ lf > crlf => CRLFPositions(new) = {}
            /\ (crlf = lf /\ crlf > 0) => CRLFPositions(new) = {}

\* --------------------------------------------------------------------- C2
\* C2: when the anchor resolver returns a negative index, the inject
\* throws: it writes no file, logs no notice and records no trace entry.
C2_NegativeIndexFails ==
    (ResolvedBy("resolver") /\ last.index < 0) =>
        /\ pc = "threw"
        /\ ~Called("writeFile")
        /\ notices = <<>>
        /\ trace = <<>>

\* --------------------------------------------------------------------- C3
\* C3: an inject whose target path does not exist throws an error whose
\* message names that path, having made no call but existsSync: it reads
\* no file, does not invoke the anchor resolver and writes no file; the
\* file system, the notices and the trace stay as they were.
C3_MissingTargetFile ==
    [][(pc = "start" /\ pc' # "start" /\ last'.fileName \notin DOMAIN fs) =>
          /\ pc' = "threw"
          /\ IndexOf(last'.message, last'.fileName) > 0
          /\ last'.events = <<"existsSync">>
          /\ fs' = fs
          /\ notices' = notices
          /\ trace' = trace]_vars

\* An inject into the missing path has thrown.
C3_Witness == pc = "threw" /\ last.fileName = MissingFile

\* --------------------------------------------------------------------- C4
\* C4: when before(p) or after(p) is handed lines none of which the pattern
\* matches and whose text joined with '\n' it does not match either, the
\* resolver throws "Could not find line '<pattern>' in file <fileName> to
\* inject content before" (or "after"), and the inject throws with the
\* target file as it was read: it is not written.
C4_PatternNotFound ==
    ((ResolvedBy("before") \/ ResolvedBy("after"))
        /\ MatchingLines(last.pattern, last.lines) = {}
        /\ MatchPositions(last.pattern, JoinedText(last.lines)) = {}) =>
        /\ pc = "threw"
        /\ last.message =
               <<"Could not find line '">>
                   \o (IF last.pattern.isRegExp
                       THEN <<"/">> \o last.pattern.text \o <<"/">>
                       ELSE last.pattern.text)
                   \o <<"' in file ">> \o Relative(cwd, last.fileName)
                   \o (IF last.kind = "before"
                       THEN <<" to inject content before">>
                       ELSE <<" to inject content after">>)
        /\ ~Called("writeFile")
        /\ fs[last.fileName] = last.fileContent

\* before("(B)") has thrown on a file that has a line with a B.
C4_Witness ==
    /\ pc = "threw"
    /\ ResolvedBy("before")
    /\ last.pattern = StringPattern(<<"(", "B", ")">>)
    /\ \E i \in 1..Len(last.lines) : last.lines[i] = <<"B">>

\* --------------------------------------------------------------------- C5
\* C5: when the pattern matches at least one single line, before(pattern)
\* returns the offset of the first such line and after(pattern) that
\* offset plus one, whatever the joined text matches.
C5_SingleLineMatch ==
    ((ResolvedBy("before") \/ ResolvedBy("after"))
        /\ MatchingLines(last.pattern, last.lines) # {}) =>
        /\ pc = "returned"
        /\ last.index = Smallest(MatchingLines(last.pattern, last.lines)) - 1
                            + (IF last.kind = "before" THEN 0 ELSE 1)

\* after("B") has returned 2 for lines of which the second and a later
\* one match.
C5_Witness ==
    /\ pc = "returned"
    /\ ResolvedBy("after")
    /\ last.index = 2
    /\ Cardinality(MatchingLines(last.pattern, last.lines)) >= 2

\* --------------------------------------------------------------------- C6
\* C6: when inject hands before(pattern) lines none of which the pattern
\* matches while it matches their text joined with '\n', the index
\* returned is the position, in those lines, of the line on which the
\* match begins.
C6_CrossLineBefore ==
    (ResolvedBy("before") /\ CrossLineCase(last.pattern, last.lines)) =>
        /\ pc = "returned"
        /\ last.index = LineOfOffset(last.lines, CrossLineStart(last.pattern, last.lines))

\* --------------------------------------------------------------------- C7
\* C7: when the pattern matches no single line and matches the text of the
\* lines joined with '\n', after(pattern) returns one plus the position of
\* the line that holds the end offset of the matched text: the offset at
\* which the match starts plus the length of the matched text.  Stated for
\* lines that hold no line feed, in which the lines of the joined text
\* are the lines of the sequence.
C7_CrossLineAfter ==
    (ResolvedBy("after") /\ CrossLineCase(last.pattern, last.lines)
        /\ \A i \in 1..Len(last.lines) : LFPositions(last.lines[i]) = {}) =>
        /\ pc = "returned"
        /\ last.index =
               1 + LineOfOffset(last.lines,
                                CrossLineStart(last.pattern, last.lines)
                                    + Len(PatternLiteral(last.pattern)))

\* --------------------------------------------------------------------- C8
\* C8: prepend() returns index 0 and append() the length of the line
\* sequence, whatever the lines hold; neither throws nor returns a
\* negative index.
C8_PrependAppend ==
    /\ ResolvedBy("prepend") => (pc = "returned" /\ last.index = 0)
    /\ ResolvedBy("append") => (pc = "returned" /\ last.index = Len(last.lines))

\* append() has returned for a file of several lines, not all of them alike.
C8_Witness ==
    /\ pc = "returned"
    /\ ResolvedBy("append")
    /\ Len(last.lines) >= 3
    /\ last.lines[1] # last.lines[2]

\* --------------------------------------------------------------------- C9
\* C9: the lines inject hands to the anchor resolver are the file content
\* split at every CRLF and every LF: one more line than the content has
\* newline occurrences, and no line holds a carriage return or a line feed.
C9_LinesSplitAtEveryNewline ==
    Called("location") =>
        /\ Len(last.lines) = Cardinality(CRLFPositions(last.fileContent))
                                 + Cardinality(LFPositions(last.fileContent)) + 1
        /\ \A i \in 1..Len(last.lines) :
               \A k \in 1..Len(last.lines[i]) : last.lines[i][k] \notin {CR, LF}

\* -------------------------------------------------------------------- C10
\* C10: when the anchor resolver returns an index k from 0 to the number
\* of lines, the lines inject writes are the lines it read with the content
\* as one new element at position k: one element more, the elements before
\* k and those from k on as they were and in their order.
C10_InsertAtIndex ==
    (pc = "returned" /\ 0 <= last.index /\ last.index <= Len(last.lines)) =>
        LET k == last.index
            old == last.lines
            new == last.newLines
        IN  /\ Len(new) = Len(old) + 1
            /\ \A i \in 1..k : new[i] = old[i]
            /\ new[k + 1] = last.content
            /\ \A i \in (k + 1)..Len(old) : new[i + 1] = old[i]
            /\ fs[last.fileName] = Join(new, last.NL)

\* An inject has returned with an index inside the lines.
C10_Witness ==
    /\ pc = "returned"
    /\ 0 < last.index
    /\ last.index < Len(last.lines)

====
